---- MODULE Spec2Model ----
(***************************************************************************)
(* genmaps-ai: the survey store (core/survey_manager.py), the knowledge    *)
(* base lookups (core/knowledge_base.py), the survey-to-map transformation *)
(* (utils/survey_processor.py) and the renderer's control flow             *)
(* (utils/map_generator.py), with the generate-map command of app.py.      *)
(*                                                                         *)
(* Representation.  A Python str is a sequence of one-character strings,   *)
(* so that lower(), the `in` substring test, concatenation and the 03d     *)
(* number format are computed rather than assumed.  A dict is a record; a  *)
(* missing key is a missing field.  Coordinates are integers.  The values  *)
(* np.linspace produces are rationals with denominator n_points - 1 and    *)
(* are stored as their numerators over that denominator.                   *)
(***************************************************************************)
EXTENDS Integers, Sequences, FiniteSets, TLC

VARIABLES
    surveys,        \* SurveyManager.surveys["surveys"]: the in-memory survey list
    survey_file,    \* survey_records.json: FileAbsent or the JSON document on disk
    minerals,       \* KnowledgeBase.minerals["minerals"]
    rocks,          \* KnowledgeBase.rocks["rocks"]
    output_files,   \* the output directory: the names of the files in it
    open_figures,   \* number of pyplot figures currently open
    kb_files,       \* minerals.json and rocks.json: the JSON documents on disk
    peer_surveys,   \* the survey list of a second SurveyManager on the same file
    peer_ret,       \* what the second manager's last create_survey returned
    arg,            \* the call in progress or last made: [op |-> ..., ...]
    ret             \* what that call returned (Pending before it has run)

vars == <<surveys, survey_file, minerals, rocks, output_files, open_figures,
          kb_files, peer_surveys, peer_ret, arg, ret>>

(***************************************************************************)
(* String literals of the program and of the inputs used below.            *)
(***************************************************************************)
str_empty == <<>>
str_survey_ == <<"s", "u", "r", "v", "e", "y", "_">>
str_survey == <<"s", "u", "r", "v", "e", "y">>
str_geological_map_ == <<"g", "e", "o", "l", "o", "g", "i", "c", "a", "l", "_", "m", "a", "p", "_">>
str_dot_png == <<".", "p", "n", "g">>
str_space == <<" ">>
str_Granite == <<"G", "r", "a", "n", "i", "t", "e">>
str_Basalt == <<"B", "a", "s", "a", "l", "t">>
str_Quartz == <<"Q", "u", "a", "r", "t", "z">>
str_Limestone == <<"L", "i", "m", "e", "s", "t", "o", "n", "e">>
str_granite == <<"g", "r", "a", "n", "i", "t", "e">>
str_coarse == <<"c", "o", "a", "r", "s", "e">>
str_feldspar == <<"f", "e", "l", "d", "s", "p", "a", "r">>
str_basalt == <<"b", "a", "s", "a", "l", "t">>
str_fine == <<"f", "i", "n", "e">>
str_volcanic == <<"v", "o", "l", "c", "a", "n", "i", "c">>
str_quartz == <<"q", "u", "a", "r", "t", "z">>
str_clear == <<"c", "l", "e", "a", "r">>
str_limestone == <<"l", "i", "m", "e", "s", "t", "o", "n", "e">>
str_reacts == <<"r", "e", "a", "c", "t", "s">>
str_acid == <<"a", "c", "i", "d">>
str_gray == <<"g", "r", "a", "y">>
str_rock == <<"r", "o", "c", "k">>
str_mineral == <<"m", "i", "n", "e", "r", "a", "l">>
str_unknown == <<"u", "n", "k", "n", "o", "w", "n">>
str_contact == <<"c", "o", "n", "t", "a", "c", "t">>
str_fault == <<"f", "a", "u", "l", "t">>
str_Feldspar == <<"F", "e", "l", "d", "s", "p", "a", "r">>
str_Shale == <<"S", "h", "a", "l", "e">>
str_GRANITE == <<"G", "R", "A", "N", "I", "T", "E">>
str_QUARTZ == <<"Q", "U", "A", "R", "T", "Z">>
str_This_is_granite == <<"T", "h", "i", "s", " ", "i", "s", " ", "g", "r", "a", "n", "i", "t", "e">>
str_fine_grained_volcanic_rock == <<"f", "i", "n", "e", " ", "g", "r", "a", "i", "n", "e", "d", " ", "v", "o", "l", "c", "a", "n", "i", "c", " ", "r", "o", "c", "k">>
str_a_clear_quartz_crystal == <<"a", " ", "c", "l", "e", "a", "r", " ", "q", "u", "a", "r", "t", "z", " ", "c", "r", "y", "s", "t", "a", "l">>
str_reacts_with_acid == <<"r", "e", "a", "c", "t", "s", " ", "w", "i", "t", "h", " ", "a", "c", "i", "d">>
str_unremarkable_gray_rock == <<"u", "n", "r", "e", "m", "a", "r", "k", "a", "b", "l", "e", " ", "g", "r", "a", "y", " ", "r", "o", "c", "k">>
str_Test_granite == <<"T", "e", "s", "t", " ", "g", "r", "a", "n", "i", "t", "e">>
str_Mojave == <<"M", "o", "j", "a", "v", "e">>
str_2026_11_01 == <<"2", "0", "2", "6", "-", "1", "1", "-", "0", "1">>

(***************************************************************************)
(* Python built-ins used by the program.                                   *)
(***************************************************************************)
UpperCase == <<"A","B","C","D","E","F","G","H","I","J","K","L","M",
               "N","O","P","Q","R","S","T","U","V","W","X","Y","Z">>
LowerCase == <<"a","b","c","d","e","f","g","h","i","j","k","l","m",
               "n","o","p","q","r","s","t","u","v","w","x","y","z">>

\* the lower-case letter of each upper-case letter
LowerOf ==
    [c \in {UpperCase[k] : k \in 1..Len(UpperCase)} |->
        LowerCase[CHOOSE k \in 1..Len(UpperCase) : UpperCase[k] = c]]

CharLower(c) == IF c \in DOMAIN LowerOf THEN LowerOf[c] ELSE c

\* str.lower()
lower(s) == [k \in 1..Len(s) |-> CharLower(s[k])]

\* the substring test `sub in s`
contains(sub, s) ==
    \E k \in 0..(Len(s) - Len(sub)) : SubSeq(s, k + 1, k + Len(sub)) = sub

Digits == <<"0","1","2","3","4","5","6","7","8","9">>

RECURSIVE DecimalDigits(_)
\* str(n) for n >= 0
DecimalDigits(n) ==
    IF n < 10 THEN <<Digits[n + 1]>>
    ELSE DecimalDigits(n \div 10) \o <<Digits[(n % 10) + 1]>>

RECURSIVE ZeroPad(_, _)
ZeroPad(s, width) == IF Len(s) >= width THEN s ELSE ZeroPad(<<"0">> \o s, width)

IdWidth == 3

\* the format spec 03d
Format03d(n) == ZeroPad(DecimalDigits(n), IdWidth)

\* None where a str is expected, and None where a dict is expected
None == <<"None">>
NoneDict == [none |-> TRUE]

HasKey(d, k) == k \in DOMAIN d

\* dict.get("elevation", 0)
GetElevation(p) == IF HasKey(p, "elevation") THEN p.elevation ELSE 0

Abs(x) == IF x < 0 THEN -x ELSE x

RECURSIVE MaxOf(_)
\* max() of a non-empty list
MaxOf(s) ==
    IF Len(s) = 1 THEN s[1]
    ELSE LET m == MaxOf(Tail(s)) IN IF s[1] >= m THEN s[1] ELSE m

\* list.index(x): the lowest position holding x (1-based here)
IndexOf(s, x) == CHOOSE k \in 1..Len(s) : s[k] = x /\ \A j \in 1..(k - 1) : s[j] # x

(***************************************************************************)
(* core/knowledge_base.py                                                  *)
(***************************************************************************)
RECURSIVE ScanByName(_, _)
\* the loop of get_mineral / get_rock: first record whose lower-cased name
\* equals the lower-cased argument, else None
ScanByName(records, name) ==
    IF records = <<>> THEN NoneDict
    ELSE IF lower(Head(records).name) = lower(name) THEN Head(records)
    ELSE ScanByName(Tail(records), name)

get_mineral(name) == ScanByName(minerals, name)

get_rock(name) == ScanByName(rocks, name)

(***************************************************************************)
(* utils/survey_processor.py                                               *)
(***************************************************************************)
n_points == 5

FaultThreshold == 50

\* survey_data.get("units", []) and survey_data.get("coordinates", [])
GetUnits(survey_data) == IF HasKey(survey_data, "units") THEN survey_data.units ELSE <<>>

GetCoordinates(survey_data) ==
    IF HasKey(survey_data, "coordinates") THEN survey_data.coordinates ELSE <<>>

\* variant of _get_unit_details that asks the mineral collection first
UnitDetailsMineralFirst(unit_type) ==
    LET rock == get_rock(unit_type)
        mineral == get_mineral(unit_type)
    IN  IF mineral # NoneDict THEN [classification |-> str_mineral, data |-> mineral]
        ELSE IF rock # NoneDict THEN [classification |-> str_rock, data |-> rock]
        ELSE [classification |-> str_unknown, data |-> [name |-> unit_type]]

_get_unit_details(unit_type) ==
    LET rock == get_rock(unit_type)
        mineral == get_mineral(unit_type)
    IN  IF rock # NoneDict THEN [classification |-> str_rock, data |-> rock]
        ELSE IF mineral # NoneDict THEN [classification |-> str_mineral, data |-> mineral]
        ELSE [classification |-> str_unknown, data |-> [name |-> unit_type]]

\* variant of _identify_units that drops the units the knowledge base does
\* not know
IsKnownUnit(unit) == _get_unit_details(unit.type).classification # str_unknown

IdentifyUnitsSkipUnknown(survey_data) ==
    LET units == SelectSeq(GetUnits(survey_data), IsKnownUnit)
    IN  [k \in 1..Len(units) |->
            [type        |-> units[k].type,
             coordinates |-> units[k].coordinates,
             properties  |-> _get_unit_details(units[k].type),
             description |-> IF HasKey(units[k], "description")
                             THEN units[k].description ELSE str_empty]]

_identify_units(survey_data) ==
    LET units == GetUnits(survey_data)
    IN  [k \in 1..Len(units) |->
            [type        |-> units[k].type,
             coordinates |-> units[k].coordinates,
             properties  |-> _get_unit_details(units[k].type),
             description |-> IF HasKey(units[k], "description")
                             THEN units[k].description ELSE str_empty]]

\* np.linspace(a, b, n_points)[k], k = 0 .. n_points-1, as the numerator of
\* a + k*(b-a)/(n_points-1) over the denominator n_points-1
Linspace(a, b, k) == (n_points - 1) * a + k * (b - a)

_interpolate_points(point1, point2) ==
    [k \in 1..n_points |->
        [lat       |-> Linspace(point1.lat, point2.lat, k - 1),
         lon       |-> Linspace(point1.lon, point2.lon, k - 1),
         elevation |-> Linspace(GetElevation(point1), GetElevation(point2), k - 1)]]

\* variant of _identify_boundaries that starts each boundary at the earlier
\* unit's first coordinate, coordinates[0], instead of its last
BoundariesFromFirstCoordinate(survey_data) ==
    LET units == GetUnits(survey_data)
    IN  IF Len(units) > 1
        THEN [k \in 1..(Len(units) - 1) |->
                [type        |-> str_contact,
                 between     |-> <<units[k].type, units[k + 1].type>>,
                 coordinates |-> _interpolate_points(
                                    units[k].coordinates[1],
                                    units[k + 1].coordinates[1])]]
        ELSE <<>>

_identify_boundaries(survey_data) ==
    LET units == GetUnits(survey_data)
    IN  IF Len(units) > 1
        THEN [k \in 1..(Len(units) - 1) |->
                [type        |-> str_contact,
                 between     |-> <<units[k].type, units[k + 1].type>>,
                 coordinates |-> _interpolate_points(
                                    units[k].coordinates[Len(units[k].coordinates)],
                                    units[k + 1].coordinates[1])]]
        ELSE <<>>

ElevChanges(coordinates) ==
    [k \in 1..(Len(coordinates) - 1) |->
        Abs(GetElevation(coordinates[k + 1]) - GetElevation(coordinates[k]))]

\* variant of _identify_structural_features with >= in the threshold test
FeaturesAtOrAboveThreshold(survey_data) ==
    LET coordinates == GetCoordinates(survey_data)
    IN  IF Len(coordinates) > 1
        THEN LET elev_changes == ElevChanges(coordinates)
             IN  IF MaxOf(elev_changes) >= FaultThreshold
                 THEN LET max_idx == IndexOf(elev_changes, MaxOf(elev_changes))
                      IN  << [type         |-> str_fault,
                              coordinates  |-> <<coordinates[max_idx], coordinates[max_idx + 1]>>,
                              displacement |-> elev_changes[max_idx]] >>
                 ELSE <<>>
        ELSE <<>>

_identify_structural_features(survey_data) ==
    LET coordinates == GetCoordinates(survey_data)
    IN  IF Len(coordinates) > 1
        THEN LET elev_changes == ElevChanges(coordinates)
             IN  IF MaxOf(elev_changes) > FaultThreshold
                 THEN LET max_idx == IndexOf(elev_changes, MaxOf(elev_changes))
                      IN  << [type         |-> str_fault,
                              coordinates  |-> <<coordinates[max_idx], coordinates[max_idx + 1]>>,
                              displacement |-> elev_changes[max_idx]] >>
                 ELSE <<>>
        ELSE <<>>

\* The exception process_survey_data raises, "none" when it returns.  The
\* subscripts unit["type"] and unit["coordinates"] raise KeyError on a
\* missing key, coordinates[-1] and coordinates[0] raise IndexError on an
\* empty list, point["lat"] and point["lon"] raise KeyError; .get() never
\* raises.  _identify_units runs first, then _identify_boundaries pair by pair.
UnitRaises(unit) ==
    IF ~HasKey(unit, "type") \/ ~HasKey(unit, "coordinates") THEN "KeyError" ELSE "none"

InterpolateRaises(point1, point2) ==
    IF /\ HasKey(point1, "lat") /\ HasKey(point2, "lat")
       /\ HasKey(point1, "lon") /\ HasKey(point2, "lon")
    THEN "none" ELSE "KeyError"

BoundaryRaises(unit1, unit2) ==
    IF unit1.coordinates = <<>> \/ unit2.coordinates = <<>> THEN "IndexError"
    ELSE InterpolateRaises(unit1.coordinates[Len(unit1.coordinates)], unit2.coordinates[1])

FirstRaised(outcomes) ==
    LET raising == {k \in 1..Len(outcomes) : outcomes[k] # "none"}
    IN  IF raising = {} THEN "none"
        ELSE outcomes[CHOOSE k \in raising : \A j \in raising : k <= j]

ProcessRaises(survey_data) ==
    LET units == GetUnits(survey_data)
        in_units == FirstRaised([k \in 1..Len(units) |-> UnitRaises(units[k])])
    IN  IF in_units # "none" THEN in_units
        ELSE IF Len(units) > 1
        THEN FirstRaised([k \in 1..(Len(units) - 1) |-> BoundaryRaises(units[k], units[k + 1])])
        ELSE "none"

process_survey_data(survey_data) ==
    [units               |-> _identify_units(survey_data),
     boundaries          |-> _identify_boundaries(survey_data),
     structural_features |-> _identify_structural_features(survey_data),
     coordinates         |-> GetCoordinates(survey_data)]

(***************************************************************************)
(* core/survey_manager.py                                                  *)
(***************************************************************************)
\* variant of infer_type_from_description with the first two rules swapped
InferBasaltFirst(description) ==
    LET d == lower(description)
    IN  IF contains(str_basalt, d) \/ (contains(str_fine, d) /\ contains(str_volcanic, d))
        THEN str_Basalt
        ELSE IF contains(str_granite, d) \/ (contains(str_coarse, d) /\ contains(str_feldspar, d))
        THEN str_Granite
        ELSE IF contains(str_quartz, d) /\ contains(str_clear, d)
        THEN str_Quartz
        ELSE IF contains(str_limestone, d) \/ (contains(str_reacts, d) /\ contains(str_acid, d))
        THEN str_Limestone
        ELSE None

infer_type_from_description(description) ==
    LET d == lower(description)
    IN  IF contains(str_granite, d) \/ (contains(str_coarse, d) /\ contains(str_feldspar, d))
        THEN str_Granite
        ELSE IF contains(str_basalt, d) \/ (contains(str_fine, d) /\ contains(str_volcanic, d))
        THEN str_Basalt
        ELSE IF contains(str_quartz, d) /\ contains(str_clear, d)
        THEN str_Quartz
        ELSE IF contains(str_limestone, d) \/ (contains(str_reacts, d) /\ contains(str_acid, d))
        THEN str_Limestone
        ELSE None

\* variant of _get_type_details that asks the rock collection first, as
\* _get_unit_details does
TypeDetailsRockFirst(type_name) ==
    LET mineral == get_mineral(type_name)
        rock == get_rock(type_name)
    IN  IF rock # NoneDict THEN [type |-> str_rock, data |-> rock]
        ELSE IF mineral # NoneDict THEN [type |-> str_mineral, data |-> mineral]
        ELSE [type |-> str_unknown, data |-> [name |-> type_name]]

_get_type_details(type_name) ==
    LET mineral == get_mineral(type_name)
        rock == get_rock(type_name)
    IN  IF mineral # NoneDict THEN [type |-> str_mineral, data |-> mineral]
        ELSE IF rock # NoneDict THEN [type |-> str_rock, data |-> rock]
        ELSE [type |-> str_unknown, data |-> [name |-> type_name]]

\* _get_survey over a survey list: the position of the first survey with the
\* id, 0 when there is none
SurveyIndex(list, survey_id) ==
    IF \E k \in 1..Len(list) : list[k].id = survey_id
    THEN CHOOSE k \in 1..Len(list) :
            list[k].id = survey_id /\ \A j \in 1..(k - 1) : list[j].id # survey_id
    ELSE 0

\* variant of _get_survey that falls back to the most recent survey when no
\* id matches
GetSurveyOrLatest(survey_id) ==
    IF SurveyIndex(surveys, survey_id) # 0 THEN surveys[SurveyIndex(surveys, survey_id)]
    ELSE IF surveys = <<>> THEN NoneDict
    ELSE surveys[Len(surveys)]

_get_survey(survey_id) ==
    IF SurveyIndex(surveys, survey_id) = 0 THEN NoneDict
    ELSE surveys[SurveyIndex(surveys, survey_id)]

\* the entry add_description builds
DescEntry(description, location_index) ==
    [location_index |-> location_index,
     text           |-> description,
     inferred_type  |-> infer_type_from_description(description)]

\* variant of AppendDescription that assigns [desc_entry] instead of appending
ReplaceDescriptions(list, k, desc_entry) ==
    [list EXCEPT ![k].descriptions = <<desc_entry>>]

\* survey["descriptions"].append(desc_entry) on the k-th survey of the list
AppendDescription(list, k, desc_entry) ==
    [list EXCEPT ![k].descriptions = Append(@, desc_entry)]

(* json.dump / json.load of the survey document.  A JSON value is tagged   *)
(* with its JSON type: null, number, string, array, object.                *)
JNull == [t |-> "null"]
JNum(n) == [t |-> "number", v |-> n]
JStr(s) == [t |-> "string", v |-> s]
JArr(a) == [t |-> "array", v |-> a]
JObj(o) == [t |-> "object", v |-> o]

\* a str-or-None value
DumpOptStr(x) == IF x = None THEN JNull ELSE JStr(x)
LoadOptStr(j) == IF j.t = "null" THEN None ELSE j.v

DumpCoordinate(p) == JObj([k \in DOMAIN p |-> JNum(p[k])])
LoadCoordinate(j) == [k \in DOMAIN j.v |-> j.v[k].v]

\* variant of DumpDescription that writes a None inferred_type as ""
DumpDescriptionDropNull(d) ==
    JObj([location_index |-> JNum(d.location_index),
          text           |-> JStr(d.text),
          inferred_type  |-> JStr(IF d.inferred_type = None THEN str_empty
                                  ELSE d.inferred_type)])

DumpDescription(d) ==
    JObj([location_index |-> JNum(d.location_index),
          text           |-> JStr(d.text),
          inferred_type  |-> DumpOptStr(d.inferred_type)])

LoadDescription(j) ==
    [location_index |-> j.v.location_index.v,
     text           |-> j.v.text.v,
     inferred_type  |-> LoadOptStr(j.v.inferred_type)]

DumpSurvey(s) ==
    JObj([id           |-> JStr(s.id),
          coordinates  |-> JArr([k \in 1..Len(s.coordinates) |-> DumpCoordinate(s.coordinates[k])]),
          descriptions |-> JArr([k \in 1..Len(s.descriptions) |-> DumpDescription(s.descriptions[k])]),
          formation    |-> DumpOptStr(s.formation),
          date         |-> JStr(s.date)])

LoadSurvey(j) ==
    [id           |-> j.v.id.v,
     coordinates  |-> [k \in 1..Len(j.v.coordinates.v) |-> LoadCoordinate(j.v.coordinates.v[k])],
     descriptions |-> [k \in 1..Len(j.v.descriptions.v) |-> LoadDescription(j.v.descriptions.v[k])],
     formation    |-> LoadOptStr(j.v.formation),
     date         |-> j.v.date.v]

\* json.dump(self.surveys, f): {"surveys": [...]}
json_dump(list) == JObj([surveys |-> JArr([k \in 1..Len(list) |-> DumpSurvey(list[k])])])

\* json.load(f)["surveys"]
json_load(doc) == [k \in 1..Len(doc.v.surveys.v) |-> LoadSurvey(doc.v.surveys.v[k])]

FileAbsent == [absent |-> TRUE]

\* _load_surveys: {"surveys": []} when the file does not exist
_load_surveys(file) == IF file = FileAbsent THEN <<>> ELSE json_load(file)

\* variant of NewSurveyId that numbers the new survey after the surveys in
\* the file instead of those in memory
NewSurveyIdFromFile(list) ==
    str_survey_ \o Format03d(Len(_load_surveys(survey_file)) + 1)

\* f"survey_{len(self.surveys['surveys']) + 1:03d}"
NewSurveyId(list) == str_survey_ \o Format03d(Len(list) + 1)

Today == str_2026_11_01

\* the survey dict create_survey builds
NewSurvey(list, coordinates, formation) ==
    [id           |-> NewSurveyId(list),
     coordinates  |-> coordinates,
     descriptions |-> <<>>,
     formation    |-> formation,
     date         |-> Today]

\* a knowledge-base record: every value is a str
DumpRecord(r) == JObj([f \in DOMAIN r |-> JStr(r[f])])
LoadRecord(j) == [f \in DOMAIN j.v |-> j.v[f].v]

\* _save_data(filename, data): json.dump of {key: [...]}, the whole file rewritten
_save_data(key, records) ==
    JObj(key :> JArr([k \in 1..Len(records) |-> DumpRecord(records[k])]))

\* _load_data(filename)[key]
_load_data(key, doc) == [k \in 1..Len(doc.v[key].v) |-> LoadRecord(doc.v[key].v[k])]

\* the two files of the data directory that add_mineral and add_rock rewrite
KBFiles(mineral_records, rock_records) ==
    [minerals_json |-> _save_data("minerals", mineral_records),
     rocks_json    |-> _save_data("rocks", rock_records)]

\* list[index] with Python's negative indices; InRange says whether it raises
InRange(list, index) == -Len(list) <= index /\ index < Len(list)

PyIndex(list, index) == IF index >= 0 THEN list[index + 1] ELSE list[Len(list) + index + 1]

\* the units loop of get_survey_for_mapping, over descriptions k..end
RECURSIVE UnitsFrom(_, _)
UnitsFrom(survey, k) ==
    IF k > Len(survey.descriptions) THEN <<>>
    ELSE LET desc == survey.descriptions[k]
         IN  IF desc.inferred_type # None /\ desc.inferred_type # str_empty
             THEN << [type        |-> desc.inferred_type,
                      coordinates |-> <<PyIndex(survey.coordinates, desc.location_index)>>,
                      description |-> desc.text] >> \o UnitsFrom(survey, k + 1)
             ELSE UnitsFrom(survey, k + 1)

\* whether survey["coordinates"][desc["location_index"]] raises IndexError
\* for some description that has an inferred type
MappingRaises(survey) ==
    \E k \in 1..Len(survey.descriptions) :
        /\ survey.descriptions[k].inferred_type # None
        /\ survey.descriptions[k].inferred_type # str_empty
        /\ ~InRange(survey.coordinates, survey.descriptions[k].location_index)

IndexError == [raised |-> "IndexError"]

get_survey_for_mapping(survey_id) ==
    LET survey == _get_survey(survey_id)
    IN  IF survey = NoneDict THEN NoneDict
        ELSE IF MappingRaises(survey) THEN IndexError
        ELSE [coordinates  |-> survey.coordinates,
              units        |-> UnitsFrom(survey, 1),
              descriptions |-> <<>>]

(***************************************************************************)
(* utils/map_generator.py                                                  *)
(*                                                                         *)
(* What matplotlib does is the environment's choice: `fails` names the     *)
(* first library step that raises (figure, draw, decorate, save) or is     *)
(* "none".  What the program's own subscripts do is computed from the data.*)
(***************************************************************************)
LibrarySteps == {"none", "figure", "draw", "decorate", "save"}

HasLatLon(p) == HasKey(p, "lat") /\ HasKey(p, "lon")

AllLatLon(points) == \A k \in 1..Len(points) : HasLatLon(points[k])

\* _plot_unit: unit['type'], unit['coordinates'], p['lon'], p['lat']
PlotUnitKeyError(unit) ==
    \/ ~HasKey(unit, "type")
    \/ ~HasKey(unit, "coordinates")
    \/ ~AllLatLon(unit.coordinates)

\* _plot_boundary: boundary['coordinates'], p['lon'], p['lat']
PlotBoundaryKeyError(boundary) ==
    \/ ~HasKey(boundary, "coordinates")
    \/ ~AllLatLon(boundary.coordinates)

\* _plot_structural_feature: feature['type'], then for a fault its coordinates
PlotFeatureKeyError(feature) ==
    \/ ~HasKey(feature, "type")
    \/ /\ feature.type = str_fault
       /\ \/ ~HasKey(feature, "coordinates")
          \/ ~AllLatLon(feature.coordinates)

GetList(data, key) == IF HasKey(data, key) THEN data[key] ELSE <<>>

\* the exception _plot_geological_features raises on its own account, or "none"
PlotException(data) ==
    IF ~HasKey(data, "coordinates") THEN "KeyError"
    ELSE IF ~AllLatLon(data.coordinates) THEN "KeyError"
    ELSE IF data.coordinates = <<>> THEN "ValueError"
    ELSE IF \E k \in 1..Len(GetList(data, "units")) : PlotUnitKeyError(data.units[k])
         THEN "KeyError"
    ELSE IF \E k \in 1..Len(GetList(data, "boundaries")) : PlotBoundaryKeyError(data.boundaries[k])
         THEN "KeyError"
    ELSE IF \E k \in 1..Len(GetList(data, "structural_features")) :
                PlotFeatureKeyError(data.structural_features[k])
         THEN "KeyError"
    ELSE "none"

\* survey_data.get('id', 'survey')
GetId(data) == IF HasKey(data, "id") THEN data.id ELSE str_survey

\* _save_map: the file name under the output directory
MapPath(survey_id) == str_geological_map_ \o survey_id \o str_dot_png

\* the body of the try block: which exception ends it ("none": it returns),
\* whether a figure was created, and whether the file was written
TryBody(data, fails) ==
    IF fails = "figure"
    THEN [exception |-> "RuntimeError", figures |-> 0, saved |-> FALSE]
    ELSE IF PlotException(data) # "none"
    THEN [exception |-> PlotException(data), figures |-> 1, saved |-> FALSE]
    ELSE IF fails = "draw"
    THEN [exception |-> "ValueError", figures |-> 1, saved |-> FALSE]
    ELSE IF fails = "decorate"
    THEN [exception |-> "RuntimeError", figures |-> 1, saved |-> FALSE]
    ELSE IF fails = "save"
    THEN [exception |-> "OSError", figures |-> 1, saved |-> FALSE]
    ELSE [exception |-> "none", figures |-> 1, saved |-> TRUE]

\* variant of CloseAll for a generate_detailed_map without the finally
\* clause: the figures stay open
CloseNone(figures) == figures

\* plt.close('all')
CloseAll(figures) == 0

\* variant of Caught for a handler that is `except OSError`
CaughtOnlyOSError(exception) == exception = "OSError"

\* except Exception
Caught(exception) == exception \in {"KeyError", "ValueError", "RuntimeError", "OSError"}

\* value: the returned path or None; escaped: the exception that reaches the
\* caller, "none" if none; figures: figures open when control returns
\* (finally: plt.close('all')); written: the file savefig wrote, None if none
generate_detailed_map(data, fails, figures_before) ==
    LET body == TryBody(data, fails)
    IN  [value   |-> IF body.exception = "none" THEN MapPath(GetId(data)) ELSE None,
         escaped |-> IF body.exception # "none" /\ ~Caught(body.exception)
                     THEN body.exception ELSE "none",
         logged  |-> body.exception # "none" /\ Caught(body.exception),
         written |-> IF body.saved THEN MapPath(GetId(data)) ELSE None,
         figures |-> CloseAll(figures_before + body.figures)]

\* the output directory after savefig wrote `path` (an existing file of that
\* name is overwritten)
WriteOutput(files, path) == files \cup {path}

(***************************************************************************)
(* Bounds and input sets.                                                  *)
(***************************************************************************)
MaxSurveys == 2
MaxDescriptions == 2
MaxCoords == 3
MaxUnits == 2
MaxWords == 3

\* ret before the call has run; afterwards ret is [value |-> what it returned]
Pending == [pending |-> TRUE]

\* all sequences over S of length 0..n
SeqsUpTo(S, n) == UNION {[1..k -> S] : k \in 0..n}

\* the knowledge base the components load: Granite is a rock only, Feldspar a
\* mineral only, Quartz is in both collections (spelled differently), Shale
\* and Basalt in neither
SampleRocks ==
    << [name |-> str_Granite, type |-> str_rock, description |-> str_coarse],
       [name |-> str_quartz, type |-> str_rock, description |-> str_clear] >>

SampleMinerals ==
    << [name |-> str_Quartz, description |-> str_clear],
       [name |-> str_Feldspar, description |-> str_gray] >>

KnowledgeBases ==
    { [minerals |-> SampleMinerals, rocks |-> SampleRocks],
      [minerals |-> <<>>, rocks |-> <<>>] }

PointA == [lat |-> 0, lon |-> 8, elevation |-> 4]
PointB == [lat |-> 4, lon |-> -4]
PointC == [lat |-> -3, lon |-> 1, elevation |-> 60]

\* survey coordinates for fault detection: equal lat/lon, elevations that
\* give deltas of 0, 1, 50, 51, 100 and 101, one point without elevation
ElevationPoints ==
    {[lat |-> 1, lon |-> 2, elevation |-> e] : e \in {50, 100, 101}}
        \cup {[lat |-> 1, lon |-> 2]}

UnitTypes == {str_Granite, str_GRANITE, str_QUARTZ, str_Feldspar, str_Shale}

UnitCoordinateLists == {<<PointA>>, <<PointB, PointC>>, <<PointC, PointA>>}

InputUnits ==
    {[type |-> t, coordinates |-> c, description |-> str_Test_granite] :
        t \in UnitTypes, c \in UnitCoordinateLists}
        \cup {[type |-> str_Shale, coordinates |-> <<PointB>>]}

TwoUnits ==
    << [type |-> str_Granite, coordinates |-> <<PointA>>, description |-> str_empty],
       [type |-> str_QUARTZ, coordinates |-> <<PointC>>, description |-> str_empty] >>

\* inputs of process_survey_data: every coordinate sequence with no units or
\* two fixed units, and every unit sequence with a few coordinate sequences
ProcessInputs ==
    {[coordinates |-> cs, units |-> us] :
        cs \in SeqsUpTo(ElevationPoints, MaxCoords), us \in {<<>>, TwoUnits}}
    \cup
    {[coordinates |-> cs, units |-> us] :
        cs \in {<<>>, <<PointA>>, <<PointA, PointC, PointB>>},
        us \in SeqsUpTo(InputUnits, MaxUnits)}
    \cup
    {[units |-> us] : us \in SeqsUpTo(InputUnits, 1)}
    \cup
    {[coordinates |-> cs] : cs \in SeqsUpTo(ElevationPoints, 2)}

(***************************************************************************)
(* ProcessSpec: process_survey_data applied to one input.                  *)
(***************************************************************************)
ProcessInit ==
    /\ surveys = <<>>
    /\ survey_file = FileAbsent
    /\ \E kb \in KnowledgeBases : minerals = kb.minerals /\ rocks = kb.rocks
    /\ output_files = {}
    /\ open_figures = 0
    /\ kb_files = KBFiles(minerals, rocks)
    /\ peer_surveys = <<>>
    /\ peer_ret = Pending
    /\ arg \in {[op |-> "process_survey_data", survey_data |-> d] : d \in ProcessInputs}
    /\ ret = Pending

Process ==
    /\ arg.op = "process_survey_data"
    /\ ret = Pending
    /\ ret' = IF ProcessRaises(arg.survey_data) # "none"
               THEN [raised |-> ProcessRaises(arg.survey_data)]
               ELSE [value |-> process_survey_data(arg.survey_data)]
    /\ UNCHANGED <<surveys, survey_file, minerals, rocks, output_files, open_figures, arg>>
    /\ UNCHANGED <<kb_files, peer_surveys, peer_ret>>

ProcessNext == Process

ProcessSpec == ProcessInit /\ [][ProcessNext]_vars

(***************************************************************************)
(* Properties of process_survey_data (ProcessSpec).                        *)
(***************************************************************************)
ProcessDone == arg.op = "process_survey_data" /\ ret # Pending

InCoordinates == GetCoordinates(arg.survey_data)

InUnits == GetUnits(arg.survey_data)

\* absolute elevation difference between coordinates k and k+1 of the input
Delta(k) == Abs(GetElevation(InCoordinates[k + 1]) - GetElevation(InCoordinates[k]))

Deltas == 1..(Len(InCoordinates) - 1)

IsFirstMaximum(k) ==
    /\ \A j \in Deltas : Delta(j) <= Delta(k)
    /\ \A j \in Deltas : j < k => Delta(j) < Delta(k)

\* C1: a structural feature is emitted iff the maximum absolute elevation
\* difference between consecutive coordinates is strictly greater than 50;
\* when emitted there is exactly one, of type "fault", located at the two
\* coordinates of the lowest index attaining the maximum, with that maximum
\* as its displacement.
C1_FaultDetection ==
    ProcessDone =>
        LET features == ret.value.structural_features
        IN  /\ (features # <<>>) <=> (\E k \in Deltas : Delta(k) > 50)
            /\ features # <<>> =>
                /\ Len(features) = 1
                /\ features[1].type = str_fault
                /\ \E k \in Deltas :
                    /\ IsFirstMaximum(k)
                    /\ features[1].coordinates = <<InCoordinates[k], InCoordinates[k + 1]>>
                    /\ features[1].displacement = Delta(k)

\* a fault was emitted although a later pair ties for the maximum
C1_Witness ==
    /\ ProcessDone
    /\ Len(ret.value.structural_features) = 1
    /\ \E k \in Deltas : \E j \in Deltas :
        /\ IsFirstMaximum(k)
        /\ j > k
        /\ Delta(j) = Delta(k)
        /\ ret.value.structural_features[1].coordinates # <<InCoordinates[j], InCoordinates[j + 1]>>

\* C2: N input units give exactly N output units, in input order and with
\* the input types, and max(N-1, 0) boundaries whatever the number of
\* coordinates; boundary k is a "contact" between the types of units k, k+1.
C2_UnitAndBoundaryCounts ==
    ProcessDone =>
        /\ Len(ret.value.units) = Len(InUnits)
        /\ \A k \in 1..Len(InUnits) : ret.value.units[k].type = InUnits[k].type
        /\ Len(ret.value.boundaries) = IF Len(InUnits) >= 1 THEN Len(InUnits) - 1 ELSE 0
        /\ \A k \in 1..Len(ret.value.boundaries) :
            /\ ret.value.boundaries[k].type = str_contact
            /\ ret.value.boundaries[k].between = <<InUnits[k].type, InUnits[k + 1].type>>

\* two units of different types, one of them unknown to the knowledge base,
\* on a survey without coordinates
C2_Witness ==
    /\ ProcessDone
    /\ InCoordinates = <<>>
    /\ Len(InUnits) = 2
    /\ InUnits[1].type = str_Shale
    /\ InUnits[2].type # str_Shale
    /\ Len(ret.value.units) = 2
    /\ Len(ret.value.boundaries) = 1

LastOf(s) == s[Len(s)]

Lo(a, b) == IF a <= b THEN a ELSE b

Hi(a, b) == IF a >= b THEN a ELSE b

\* the numerators over 4 of five evenly spaced values from a to b, each
\* within [min(a,b), max(a,b)]
EvenlySpaced(values, a, b) ==
    /\ values[1] = 4 * a
    /\ values[5] = 4 * b
    /\ \A k \in 1..4 : values[k + 1] - values[k] = b - a
    /\ \A k \in 1..5 : 4 * Lo(a, b) <= values[k] /\ values[k] <= 4 * Hi(a, b)

\* C3: every boundary has exactly 5 points, evenly spaced by independent
\* linear interpolation of lat, lon and elevation from the last coordinate
\* of the earlier unit to the first coordinate of the later unit, each value
\* within the inclusive range of the two endpoints.
C3_BoundaryInterpolation ==
    ProcessDone =>
        \A k \in 1..Len(ret.value.boundaries) :
            LET pts == ret.value.boundaries[k].coordinates
                from == LastOf(InUnits[k].coordinates)
                to == InUnits[k + 1].coordinates[1]
            IN  /\ Len(pts) = 5
                /\ EvenlySpaced([i \in 1..5 |-> pts[i].lat], from.lat, to.lat)
                /\ EvenlySpaced([i \in 1..5 |-> pts[i].lon], from.lon, to.lon)
                /\ EvenlySpaced([i \in 1..5 |-> pts[i].elevation],
                                GetElevation(from), GetElevation(to))

\* a boundary from a two-point unit (whose last point differs from its
\* first) to a unit starting elsewhere, descending in one axis
C3_Witness ==
    /\ ProcessDone
    /\ Len(ret.value.boundaries) >= 1
    /\ Len(InUnits[1].coordinates) = 2
    /\ InUnits[1].coordinates[1] # InUnits[1].coordinates[2]
    /\ LastOf(InUnits[1].coordinates).lat > InUnits[2].coordinates[1].lat
    /\ ret.value.boundaries[1].coordinates[2].lat < ret.value.boundaries[1].coordinates[1].lat

NameIn(records, name) == \E k \in 1..Len(records) : lower(records[k].name) = lower(name)

\* C4: a unit type is looked up, ignoring case, among the rocks first and
\* the minerals second: in both -> "rock", only a mineral -> "mineral",
\* in neither -> "unknown" with data holding just the name; every input unit
\* is classified (a miss does not abort processing).
C4_ClassificationOrder ==
    ProcessDone =>
        /\ Len(ret.value.units) = Len(InUnits)
        /\ \A k \in 1..Len(ret.value.units) :
            LET t == InUnits[k].type
                p == ret.value.units[k].properties
            IN  /\ NameIn(rocks, t) =>
                    /\ p.classification = str_rock
                    /\ lower(p.data.name) = lower(t)
                    /\ \E j \in 1..Len(rocks) : rocks[j] = p.data
                /\ (~NameIn(rocks, t) /\ NameIn(minerals, t)) =>
                    /\ p.classification = str_mineral
                    /\ lower(p.data.name) = lower(t)
                    /\ \E j \in 1..Len(minerals) : minerals[j] = p.data
                /\ (~NameIn(rocks, t) /\ ~NameIn(minerals, t)) =>
                    /\ p.classification = str_unknown
                    /\ p.data = [name |-> t]

\* a unit whose type is, up to case, both a rock and a mineral
C4_Witness ==
    /\ ProcessDone
    /\ \E k \in 1..Len(ret.value.units) :
        /\ NameIn(rocks, InUnits[k].type)
        /\ NameIn(minerals, InUnits[k].type)
        /\ \A j \in 1..Len(rocks) : rocks[j].name # InUnits[k].type
        /\ ret.value.units[k].properties.classification = str_rock

(***************************************************************************)
(* Spec: the commands of app.py on one survey file.  Every command runs in *)
(* a process that constructs a SurveyManager (Restart) and then calls it.  *)
(***************************************************************************)
IdOf(n) == str_survey_ \o Format03d(n)

\* the ids a command may name: those that can exist, and one that never does
CommandIds == {IdOf(n) : n \in 1..(MaxSurveys + 1)}

\* what new-survey is given: no coordinates and no formation, or two
\* coordinates and a formation
CommandSurveys ==
    { [coordinates |-> <<>>, formation |-> None],
      [coordinates |-> <<PointA, PointC>>, formation |-> str_Mojave] }

\* what add-description is given: a text and a location index (0 is the
\* default)
CommandNotes ==
    { [description |-> str_This_is_granite, location_index |-> 0],
      [description |-> str_This_is_granite, location_index |-> 1],
      [description |-> str_unremarkable_gray_rock, location_index |-> 0] }

\* the library outcomes tried in the command: all succeed, or savefig raises
CommandFails == {"none", "save"}

TotalDescriptions(list) ==
    LET RECURSIVE Sum(_)
        Sum(k) == IF k = 0 THEN 0 ELSE Len(list[k].descriptions) + Sum(k - 1)
    IN  Sum(Len(list))

Init ==
    /\ surveys = <<>>
    /\ survey_file = FileAbsent
    /\ minerals = SampleMinerals
    /\ rocks = SampleRocks
    /\ output_files = {}
    /\ open_figures = 0
    /\ kb_files = KBFiles(minerals, rocks)
    /\ peer_surveys = <<>>
    /\ peer_ret = Pending
    /\ arg = [op |-> "init"]
    /\ ret = Pending

\* SurveyManager.__init__ in a new process
Restart ==
    /\ surveys' = _load_surveys(survey_file)
    /\ open_figures' = 0
    /\ arg' = [op |-> "init"]
    /\ ret' = Pending
    /\ UNCHANGED <<survey_file, minerals, rocks, output_files>>
    /\ UNCHANGED <<kb_files, peer_surveys, peer_ret>>

\* create_survey(coordinates, formation)
CreateSurvey(coordinates, formation) ==
    /\ Len(surveys) < MaxSurveys
    /\ surveys' = Append(surveys, NewSurvey(surveys, coordinates, formation))
    /\ survey_file' = json_dump(surveys')
    /\ arg' = [op |-> "create_survey", coordinates |-> coordinates, formation |-> formation]
    /\ ret' = [value |-> NewSurveyId(surveys)]
    /\ UNCHANGED <<minerals, rocks, output_files, open_figures>>
    /\ UNCHANGED <<kb_files, peer_surveys, peer_ret>>

\* add_description(survey_id, description, location_index)
AddDescription(survey_id, description, location_index) ==
    /\ TotalDescriptions(surveys) < MaxDescriptions
    /\ arg' = [op |-> "add_description", survey_id |-> survey_id,
               description |-> description, location_index |-> location_index]
    /\ IF _get_survey(survey_id) = NoneDict
       THEN /\ ret' = [value |-> NoneDict]
            /\ UNCHANGED <<surveys, survey_file>>
       ELSE LET inferred_type == infer_type_from_description(description)
            IN  /\ surveys' = AppendDescription(surveys, SurveyIndex(surveys, survey_id),
                                                DescEntry(description, location_index))
                /\ survey_file' = json_dump(surveys')
                /\ ret' = [value |-> IF inferred_type # None /\ inferred_type # str_empty
                                      THEN _get_type_details(inferred_type)
                                      ELSE NoneDict]
    /\ UNCHANGED <<minerals, rocks, output_files, open_figures>>
    /\ UNCHANGED <<kb_files, peer_surveys, peer_ret>>

NotRun == [notrun |-> TRUE]

\* the --generate-map branch of main: get_survey_for_mapping, then (for a
\* survey that was found) process_survey_data and generate_detailed_map
GenerateMap(survey_id, fails) ==
    LET survey_data == get_survey_for_mapping(survey_id)
    IN  /\ arg' = [op |-> "generate_map", survey_id |-> survey_id, fails |-> fails]
        /\ IF survey_data = NoneDict \/ survey_data = IndexError
           THEN /\ ret' = [survey_data |-> survey_data, map |-> NotRun]
                /\ UNCHANGED <<output_files, open_figures>>
           ELSE LET processed_data == process_survey_data(survey_data)
                    map == generate_detailed_map(processed_data, fails, open_figures)
                IN  /\ ret' = [survey_data |-> survey_data, map |-> map]
                    /\ open_figures' = map.figures
                    /\ output_files' = IF map.written = None THEN output_files
                                       ELSE WriteOutput(output_files, map.written)
        /\ UNCHANGED <<surveys, survey_file, minerals, rocks>>
        /\ UNCHANGED <<kb_files, peer_surveys, peer_ret>>

Next ==
    \/ Restart
    \/ \E s \in CommandSurveys : CreateSurvey(s.coordinates, s.formation)
    \/ \E survey_id \in CommandIds, n \in CommandNotes :
        AddDescription(survey_id, n.description, n.location_index)
    \/ \E survey_id \in CommandIds, fails \in CommandFails : GenerateMap(survey_id, fails)

Spec == Init /\ [][Next]_vars

(***************************************************************************)
(* InferSpec: infer_type_from_description applied to one text, on a        *)
(* manager that holds a survey.                                            *)
(***************************************************************************)
Keywords ==
    {str_granite, str_coarse, str_feldspar, str_basalt, str_fine, str_volcanic,
     str_quartz, str_clear, str_limestone, str_reacts, str_acid, str_gray}

CharUpper(c) ==
    IF \E k \in 1..Len(LowerCase) : LowerCase[k] = c
    THEN UpperCase[CHOOSE k \in 1..Len(LowerCase) : LowerCase[k] = c]
    ELSE c

upper(s) == [k \in 1..Len(s) |-> CharUpper(s[k])]

\* the words separated by single spaces
RECURSIVE JoinWords(_)
JoinWords(words) ==
    IF words = <<>> THEN str_empty
    ELSE IF Len(words) = 1 THEN words[1]
    ELSE words[1] \o str_space \o JoinWords(Tail(words))

SampleDescriptions ==
    {str_This_is_granite, str_fine_grained_volcanic_rock, str_a_clear_quartz_crystal,
     str_reacts_with_acid, str_unremarkable_gray_rock}

SampleStore ==
    << [id           |-> IdOf(1),
        coordinates  |-> <<PointA>>,
        descriptions |-> <<DescEntry(str_This_is_granite, 0)>>,
        formation    |-> None,
        date         |-> Today] >>

InferInit ==
    /\ surveys = SampleStore
    /\ survey_file = json_dump(SampleStore)
    /\ minerals = SampleMinerals
    /\ rocks = SampleRocks
    /\ output_files = {}
    /\ open_figures = 0
    /\ kb_files = KBFiles(minerals, rocks)
    /\ peer_surveys = <<>>
    /\ peer_ret = Pending
    \* the text: up to MaxWords keywords, in lower or in upper case, or one of
    \* the sample descriptions
    /\ \/ \E n \in 0..MaxWords : \E ws \in [1..n -> Keywords] : \E up \in BOOLEAN :
            arg = [op |-> "infer_type_from_description",
                   description |-> IF up THEN upper(JoinWords(ws)) ELSE JoinWords(ws)]
       \/ \E d \in SampleDescriptions :
            arg = [op |-> "infer_type_from_description", description |-> d]
    /\ ret = Pending

Infer ==
    /\ arg.op = "infer_type_from_description"
    /\ ret = Pending
    /\ ret' = [value |-> infer_type_from_description(arg.description)]
    /\ UNCHANGED <<surveys, survey_file, minerals, rocks, output_files, open_figures, arg>>
    /\ UNCHANGED <<kb_files, peer_surveys, peer_ret>>

InferNext == Infer

InferSpec == InferInit /\ [][InferNext]_vars

(***************************************************************************)
(* RenderSpec: generate_detailed_map applied to one data dict, well formed *)
(* or not, with one choice of what the plotting library does.              *)
(***************************************************************************)
NoField == <<>>

TestPoint == [lat |-> 34, lon |-> -118, elevation |-> 100]

GoodUnit == [type |-> str_granite, coordinates |-> <<TestPoint>>, description |-> str_Test_granite]

GoodBoundary ==
    [type |-> str_contact, between |-> <<str_granite, str_basalt>>,
     coordinates |-> _interpolate_points(PointA, PointC)]

GoodFault == [type |-> str_fault, coordinates |-> <<PointA, PointC>>, displacement |-> 56]

\* the choices for each key of the data dict; choice 1 leaves the key out
CoordinatesField(c) ==
    CASE c = 1 -> NoField
      [] c = 2 -> ("coordinates" :> <<>>)
      [] c = 3 -> ("coordinates" :> <<TestPoint>>)
      [] c = 4 -> ("coordinates" :> <<PointA, PointC>>)
      [] c = 5 -> ("coordinates" :> <<[lon |-> 1, elevation |-> 2]>>)

UnitsField(c) ==
    CASE c = 1 -> NoField
      [] c = 2 -> ("units" :> <<>>)
      [] c = 3 -> ("units" :> <<GoodUnit>>)
      [] c = 4 -> ("units" :> << [coordinates |-> <<TestPoint>>] >>)
      [] c = 5 -> ("units" :> << GoodUnit, [type |-> str_Shale] >>)

BoundariesField(c) ==
    CASE c = 1 -> NoField
      [] c = 2 -> ("boundaries" :> <<GoodBoundary>>)
      [] c = 3 -> ("boundaries" :> << [type |-> str_contact] >>)

FeaturesField(c) ==
    CASE c = 1 -> NoField
      [] c = 2 -> ("structural_features" :> <<GoodFault>>)
      [] c = 3 -> ("structural_features" :> << [coordinates |-> <<PointA, PointC>>] >>)
      [] c = 4 -> ("structural_features" :> << [type |-> str_fault] >>)
      [] c = 5 -> ("structural_features" :> << [type |-> str_contact] >>)

IdField(c) ==
    CASE c = 1 -> NoField
      [] c = 2 -> ("id" :> IdOf(1))
      [] c = 3 -> ("id" :> IdOf(2))

RenderInput(c, u, b, f, i) ==
    CoordinatesField(c) @@ UnitsField(u) @@ BoundariesField(b) @@ FeaturesField(f) @@ IdField(i)

\* pyplot figures that may be open in the process when generate_detailed_map
\* is called
MaxOpenFigures == 1

RenderInit ==
    /\ surveys = <<>>
    /\ survey_file = FileAbsent
    /\ minerals = SampleMinerals
    /\ rocks = SampleRocks
    /\ output_files = {}
    /\ open_figures \in 0..MaxOpenFigures
    /\ kb_files = KBFiles(minerals, rocks)
    /\ peer_surveys = <<>>
    /\ peer_ret = Pending
    /\ \E c \in 1..5, u \in 1..5, b \in 1..3, f \in 1..5, i \in 1..3, x \in LibrarySteps :
        arg = [op |-> "generate_detailed_map", survey_data |-> RenderInput(c, u, b, f, i),
               fails |-> x]
    /\ ret = Pending

Render ==
    /\ arg.op = "generate_detailed_map"
    /\ ret = Pending
    /\ LET map == generate_detailed_map(arg.survey_data, arg.fails, open_figures)
       IN  /\ ret' = [value |-> map]
           /\ open_figures' = map.figures
           /\ output_files' = IF map.written = None THEN output_files
                              ELSE WriteOutput(output_files, map.written)
    /\ UNCHANGED <<surveys, survey_file, minerals, rocks, arg>>
    /\ UNCHANGED <<kb_files, peer_surveys, peer_ret>>

RenderNext == Render

RenderSpec == RenderInit /\ [][RenderNext]_vars

(***************************************************************************)
(* Properties of infer_type_from_description (InferSpec).                  *)
(***************************************************************************)
InferDone == arg.op = "infer_type_from_description" /\ ret # Pending

\* the rules in priority order: a rule holds when, for one of its
\* alternatives, every keyword of the alternative occurs in the text
Rules ==
    << [label |-> str_Granite,   alternatives |-> {{str_granite}, {str_coarse, str_feldspar}}],
       [label |-> str_Basalt,    alternatives |-> {{str_basalt}, {str_fine, str_volcanic}}],
       [label |-> str_Quartz,    alternatives |-> {{str_quartz, str_clear}}],
       [label |-> str_Limestone, alternatives |-> {{str_limestone}, {str_reacts, str_acid}}] >>

Satisfied(k, text) ==
    \E alt \in Rules[k].alternatives : \A w \in alt : contains(w, lower(text))

\* C5: the result is the label of the first rule, in the order Granite,
\* Basalt, Quartz, Limestone, that the lower-cased text satisfies, and None
\* when it satisfies none; the survey list and the survey file are untouched.
C5_FirstRuleWins ==
    InferDone =>
        /\ \A k \in 1..Len(Rules) :
            (Satisfied(k, arg.description) /\ \A j \in 1..(k - 1) : ~Satisfied(j, arg.description))
                => ret.value = Rules[k].label
        /\ (\A k \in 1..Len(Rules) : ~Satisfied(k, arg.description)) => ret.value = None
        /\ surveys = SampleStore
        /\ survey_file = json_dump(SampleStore)

\* an upper-case text that satisfies the Granite and the Basalt rule
C5_Witness ==
    /\ InferDone
    /\ arg.description # lower(arg.description)
    /\ Satisfied(1, arg.description)
    /\ Satisfied(2, arg.description)
    /\ ret.value = str_Granite

(***************************************************************************)
(* Properties of the survey store and of the generate-map command (Spec).  *)
(***************************************************************************)
IsPrefix(s, t) == Len(s) <= Len(t) /\ \A k \in 1..Len(s) : s[k] = t[k]

IdsDistinct ==
    \A i \in 1..Len(surveys) : \A j \in 1..Len(surveys) :
        i # j => surveys[i].id # surveys[j].id

ReturnedIdIsStored ==
    arg.op = "create_survey" => ret.value = surveys[Len(surveys)].id

SurveysStable ==
    \A k \in 1..Len(surveys) :
        /\ k <= Len(surveys')
        /\ surveys'[k].id = surveys[k].id
        /\ surveys'[k].coordinates = surveys[k].coordinates
        /\ IsPrefix(surveys[k].descriptions, surveys'[k].descriptions)

\* C6: the stored survey ids are pairwise distinct, create_survey returns
\* the id it stored, and no step changes the id or the coordinates of an
\* existing survey or does anything to its descriptions but append.
C6_IdsUniqueAndStable ==
    /\ [](IdsDistinct /\ ReturnedIdIsStored)
    /\ [][SurveysStable]_vars

\* a survey was created after an earlier one had received a description
C6_Witness ==
    /\ arg.op = "create_survey"
    /\ Len(surveys) = 2
    /\ Len(surveys[1].descriptions) >= 1
    /\ ret.value = IdOf(2)

AddDone == arg.op = "add_description" /\ SurveyIndex(surveys, arg.survey_id) # 0

\* C7: after add_description on an existing survey, the survey list loaded
\* from the file has that survey with the same descriptions in the same
\* order, the last one with the location_index, text and inferred_type that
\* were appended (a None inferred_type included).
C7_RoundTrip ==
    AddDone =>
        LET k == SurveyIndex(surveys, arg.survey_id)
            loaded == _load_surveys(survey_file)
        IN  /\ Len(loaded) = Len(surveys)
            /\ loaded[k].id = arg.survey_id
            /\ loaded[k].descriptions = surveys[k].descriptions
            /\ LastOf(loaded[k].descriptions) =
                    [location_index |-> arg.location_index,
                     text           |-> arg.description,
                     inferred_type  |-> infer_type_from_description(arg.description)]

\* a description without inferred type was appended after a typed one
C7_Witness ==
    /\ AddDone
    /\ LET ds == surveys[SurveyIndex(surveys, arg.survey_id)].descriptions
       IN  /\ Len(ds) = 2
           /\ ds[1].inferred_type = str_Granite
           /\ ds[2].inferred_type = None
           /\ ds[2].text = arg.description

MapCommandDone == arg.op = "generate_map" /\ SurveyIndex(surveys, arg.survey_id) # 0

HasInferredType(desc) == desc.inferred_type # None

\* C8: for every existing survey, get_survey_for_mapping derives exactly one
\* unit per description whose inferred_type is not None, in description
\* order, with type = inferred_type, description = text and coordinates =
\* the one survey coordinate at the description's location_index.
C8_OneUnitPerTypedDescription ==
    MapCommandDone =>
        LET survey == surveys[SurveyIndex(surveys, arg.survey_id)]
            typed == SelectSeq(survey.descriptions, HasInferredType)
            data == ret.survey_data
        IN  /\ HasKey(data, "units")
            /\ Len(data.units) = Len(typed)
            /\ \A k \in 1..Len(typed) :
                /\ data.units[k].type = typed[k].inferred_type
                /\ data.units[k].description = typed[k].text
                /\ InRange(survey.coordinates, typed[k].location_index)
                /\ data.units[k].coordinates =
                        <<PyIndex(survey.coordinates, typed[k].location_index)>>

\* C9: a map that the generate-map command produced is at the path
\* geological_map_<survey id>.png of the survey that was mapped, and the
\* output directory holds a file of that name.
C9_PathDerivedFromSurveyId ==
    (MapCommandDone /\ ret.map # NotRun) =>
        (ret.map.value # None =>
            /\ ret.map.value = MapPath(arg.survey_id)
            /\ MapPath(arg.survey_id) \in output_files)

(***************************************************************************)
(* Properties of generate_detailed_map (RenderSpec).                       *)
(***************************************************************************)
RenderDone == arg.op = "generate_detailed_map" /\ ret # Pending

CoordinatesMissingOrEmpty ==
    \/ ~HasKey(arg.survey_data, "coordinates")
    \/ arg.survey_data.coordinates = <<>>

Lacks(dict, keys) == \E k \in keys : ~HasKey(dict, k)

LacksExpectedField ==
    LET data == arg.survey_data
    IN  \/ /\ HasKey(data, "coordinates")
           /\ \E k \in 1..Len(data.coordinates) : Lacks(data.coordinates[k], {"lat", "lon"})
        \/ /\ HasKey(data, "units")
           /\ \E k \in 1..Len(data.units) : Lacks(data.units[k], {"type", "coordinates"})
        \/ /\ HasKey(data, "boundaries")
           /\ \E k \in 1..Len(data.boundaries) : Lacks(data.boundaries[k], {"coordinates"})
        \/ /\ HasKey(data, "structural_features")
           /\ \E k \in 1..Len(data.structural_features) :
                \/ Lacks(data.structural_features[k], {"type"})
                \/ /\ data.structural_features[k].type = str_fault
                   /\ Lacks(data.structural_features[k], {"coordinates"})

\* C10: no exception reaches the caller of generate_detailed_map; it returns
\* None, having logged the error, when the coordinates are empty or missing,
\* when a unit, boundary or feature lacks an expected field, or when a
\* rendering step (saving included) fails; it returns a path only when every
\* step succeeded, and then the file was written.
C10_FailureIsNone ==
    RenderDone =>
        /\ ret.value.escaped = "none"
        /\ (CoordinatesMissingOrEmpty \/ LacksExpectedField \/ arg.fails # "none")
                => (ret.value.value = None /\ ret.value.logged /\ ret.value.written = None)
        /\ ret.value.value # None =>
                /\ ~CoordinatesMissingOrEmpty
                /\ ~LacksExpectedField
                /\ arg.fails = "none"
                /\ ret.value.written = ret.value.value
                /\ ret.value.value \in output_files

\* a unit without "type" on otherwise good data, the library never failing
C10_Witness ==
    /\ RenderDone
    /\ arg.fails = "none"
    /\ ~CoordinatesMissingOrEmpty
    /\ HasKey(arg.survey_data, "units")
    /\ \E k \in 1..Len(arg.survey_data.units) : ~HasKey(arg.survey_data.units[k], "type")
    /\ ret.value.value = None
    /\ ret.value.logged

(***************************************************************************)
(* MalformedSpec: process_survey_data applied to one input whose units and *)
(* coordinates may lack the fields the code subscripts.                    *)
(***************************************************************************)
PointNoLat == [lon |-> 8, elevation |-> 4]
PointNoLon == [lat |-> 4]

MalformedUnits ==
    { [type |-> str_Granite, coordinates |-> <<PointA, PointB>>],
      [coordinates |-> <<PointA>>],
      [type |-> str_Shale, coordinates |-> <<>>],
      [type |-> str_QUARTZ, coordinates |-> <<PointNoLat>>],
      [type |-> str_Feldspar, coordinates |-> <<PointA, PointNoLon>>],
      [type |-> str_Granite] }

MalformedCoordinates == {<<>>, <<PointA, PointC>>, <<PointNoLat, PointC, PointNoLon>>}

MalformedInputs ==
    {[coordinates |-> cs, units |-> us] :
        cs \in MalformedCoordinates, us \in SeqsUpTo(MalformedUnits, MaxUnits)}
    \cup {[units |-> us] : us \in SeqsUpTo(MalformedUnits, 1)}
    \cup {[coordinates |-> cs] : cs \in MalformedCoordinates}

MalformedInit ==
    /\ surveys = <<>>
    /\ survey_file = FileAbsent
    /\ minerals = SampleMinerals
    /\ rocks = SampleRocks
    /\ output_files = {}
    /\ open_figures = 0
    /\ kb_files = KBFiles(minerals, rocks)
    /\ peer_surveys = <<>>
    /\ peer_ret = Pending
    /\ arg \in {[op |-> "process_survey_data", survey_data |-> d] : d \in MalformedInputs}
    /\ ret = Pending

MalformedNext == Process

MalformedSpec == MalformedInit /\ [][MalformedNext]_vars

Raised == HasKey(ret, "raised")

WellFormedPoint(p) == HasKey(p, "lat") /\ HasKey(p, "lon")

WellFormedUnit(unit) ==
    /\ HasKey(unit, "type")
    /\ HasKey(unit, "coordinates")
    /\ unit.coordinates # <<>>
    /\ \A k \in 1..Len(unit.coordinates) : WellFormedPoint(unit.coordinates[k])

MalformedUnitData == \E k \in 1..Len(InUnits) : ~WellFormedUnit(InUnits[k])

MalformedCoordinateData == \E k \in 1..Len(InCoordinates) : ~WellFormedPoint(InCoordinates[k])

\* C11: process_survey_data never raises to its caller; an absent or empty
\* units collection gives empty units and boundaries, an absent or empty
\* coordinates collection gives empty structural features and coordinates,
\* and an input with a malformed unit or coordinate (a unit without type or
\* with no coordinates, a coordinate without lat or lon) gives empty
\* derived collections.
C11_NoFaultEscapes ==
    ProcessDone =>
        /\ ~Raised
        /\ InUnits = <<>> =>
              ret.value.units = <<>> /\ ret.value.boundaries = <<>>
        /\ InCoordinates = <<>> =>
              ret.value.structural_features = <<>> /\ ret.value.coordinates = <<>>
        /\ MalformedUnitData =>
              ret.value.units = <<>> /\ ret.value.boundaries = <<>>
        /\ MalformedCoordinateData => ret.value.structural_features = <<>>

(***************************************************************************)
(* Lookups that find nothing (Spec).                                       *)
(***************************************************************************)
NoSurveyHas(survey_id) == \A k \in 1..Len(surveys) : surveys[k].id # survey_id

ProbeNames == UnitTypes \cup {str_Basalt, str_quartz, str_Limestone}

KBMissIsNone ==
    \A name \in ProbeNames :
        /\ ~NameIn(minerals, name) => get_mineral(name) = NoneDict
        /\ ~NameIn(rocks, name) => get_rock(name) = NoneDict

\* a step that calls add_description or get_survey_for_mapping with an id no
\* stored survey has
MissLeavesStore ==
    /\ arg'.op = "add_description" /\ NoSurveyHas(arg'.survey_id) =>
          /\ ret' = [value |-> NoneDict]
          /\ surveys' = surveys
          /\ survey_file' = survey_file
    /\ arg'.op = "generate_map" /\ NoSurveyHas(arg'.survey_id) =>
          /\ ret'.survey_data = NoneDict
          /\ surveys' = surveys
          /\ survey_file' = survey_file

\* C12: add_description and get_survey_for_mapping called with an id that
\* matches no stored survey return None and leave the in-memory survey list
\* and the survey file as they were; get_mineral and get_rock return None
\* for a name their collection does not hold.
C12_LookupMiss ==
    /\ []KBMissIsNone
    /\ [][MissLeavesStore]_vars

\* add_description of a typed description was called with an unknown id on a
\* store that holds a survey and has been saved
C12_Witness ==
    /\ arg.op = "add_description"
    /\ surveys # <<>>
    /\ NoSurveyHas(arg.survey_id)
    /\ infer_type_from_description(arg.description) # None
    /\ ret = [value |-> NoneDict]
    /\ survey_file = json_dump(surveys)

(***************************************************************************)
(* KBSpec: one KnowledgeBase and the calls that add records to it:         *)
(* add_mineral, add_rock, and update_knowledge_base with what was scraped. *)
(***************************************************************************)
MaxRecords == 3

ScrapedMinerals ==
    { [name |-> str_quartz, description |-> str_clear],
      [name |-> str_Feldspar, description |-> str_gray] }

ScrapedRocks ==
    { [name |-> str_GRANITE, type |-> str_volcanic, description |-> str_coarse],
      [name |-> str_Basalt, type |-> str_volcanic, description |-> str_fine] }

KBInit ==
    /\ surveys = <<>>
    /\ survey_file = FileAbsent
    /\ \E kb \in KnowledgeBases : minerals = kb.minerals /\ rocks = kb.rocks
    /\ output_files = {}
    /\ open_figures = 0
    /\ kb_files = KBFiles(minerals, rocks)
    /\ peer_surveys = <<>>
    /\ peer_ret = Pending
    /\ arg = [op |-> "init"]
    /\ ret = Pending

\* add_mineral(mineral_data)
AddMineral(mineral_data) ==
    /\ Len(minerals) < MaxRecords
    /\ minerals' = Append(minerals, mineral_data)
    /\ kb_files' = [kb_files EXCEPT !.minerals_json = _save_data("minerals", minerals')]
    /\ arg' = [op |-> "add_mineral", data |-> mineral_data]
    /\ ret' = [value |-> NoneDict]
    /\ UNCHANGED <<surveys, survey_file, rocks, output_files, open_figures>>
    /\ UNCHANGED <<peer_surveys, peer_ret>>

\* add_rock(rock_data)
AddRock(rock_data) ==
    /\ Len(rocks) < MaxRecords
    /\ rocks' = Append(rocks, rock_data)
    /\ kb_files' = [kb_files EXCEPT !.rocks_json = _save_data("rocks", rocks')]
    /\ arg' = [op |-> "add_rock", data |-> rock_data]
    /\ ret' = [value |-> NoneDict]
    /\ UNCHANGED <<surveys, survey_file, minerals, output_files, open_figures>>
    /\ UNCHANGED <<peer_surveys, peer_ret>>

\* update_knowledge_base(): add_mineral for each scraped mineral, then
\* add_rock for each scraped rock; a scrape that failed gives an empty list
UpdateKnowledgeBase(new_minerals, new_rocks) ==
    /\ Len(minerals) + Len(new_minerals) <= MaxRecords
    /\ Len(rocks) + Len(new_rocks) <= MaxRecords
    /\ minerals' = minerals \o new_minerals
    /\ rocks' = rocks \o new_rocks
    /\ kb_files' =
          [minerals_json |-> IF new_minerals = <<>> THEN kb_files.minerals_json
                             ELSE _save_data("minerals", minerals'),
           rocks_json    |-> IF new_rocks = <<>> THEN kb_files.rocks_json
                             ELSE _save_data("rocks", rocks')]
    /\ arg' = [op |-> "update_knowledge_base",
               new_minerals |-> new_minerals, new_rocks |-> new_rocks]
    /\ ret' = [value |-> NoneDict]
    /\ UNCHANGED <<surveys, survey_file, output_files, open_figures>>
    /\ UNCHANGED <<peer_surveys, peer_ret>>

KBNext ==
    \/ \E mineral_data \in ScrapedMinerals : AddMineral(mineral_data)
    \/ \E rock_data \in ScrapedRocks : AddRock(rock_data)
    \/ \E new_minerals \in SeqsUpTo(ScrapedMinerals, 2), new_rocks \in SeqsUpTo(ScrapedRocks, 2) :
          UpdateKnowledgeBase(new_minerals, new_rocks)

KBSpec == KBInit /\ [][KBNext]_vars

NamesUnique(records) ==
    \A j, k \in 1..Len(records) :
        j # k => lower(records[j].name) # lower(records[k].name)

\* C13: in the mineral collection and in the rock collection, in memory and
\* in the file last written, no two records have names that are equal
\* ignoring case.
C13_NamesUnique ==
    /\ NamesUnique(minerals)
    /\ NamesUnique(rocks)
    /\ NamesUnique(_load_data("minerals", kb_files.minerals_json))
    /\ NamesUnique(_load_data("rocks", kb_files.rocks_json))

(***************************************************************************)
(* Release of the pyplot figures (RenderSpec).                             *)
(***************************************************************************)
FigureWasCreated == TryBody(arg.survey_data, arg.fails).figures = 1

\* C14: when generate_detailed_map has returned, with a path or with None
\* after a failure at figure creation, plotting, decoration or saving, no
\* pyplot figure is open, whatever number was open when it was called.
C14_FiguresClosed ==
    RenderDone => open_figures = 0 /\ ret.value.figures = 0

\* the call created its figure, failed at a later step and returned None
C14_Witness ==
    /\ RenderDone
    /\ FigureWasCreated
    /\ arg.fails \in {"draw", "decorate", "save"}
    /\ ret.value.value = None
    /\ open_figures = 0

(***************************************************************************)
(* ConcSpec: two SurveyManager instances on one survey file.  Each loaded  *)
(* the file when it was constructed and keeps its own in-memory list;      *)
(* every create_survey rewrites the whole file from the caller's list.     *)
(* surveys, arg and ret are the first manager's, peer_surveys and peer_ret *)
(* the second's.                                                           *)
(***************************************************************************)
\* the file before either manager was constructed: absent, or holding one
\* survey
StoredBefore ==
    { FileAbsent,
      json_dump(<< [id           |-> IdOf(1),
                    coordinates  |-> <<PointB>>,
                    descriptions |-> <<>>,
                    formation    |-> None,
                    date         |-> Today] >>) }

ConcInit ==
    /\ survey_file \in StoredBefore
    /\ surveys = _load_surveys(survey_file)
    /\ peer_surveys = _load_surveys(survey_file)
    /\ minerals = SampleMinerals
    /\ rocks = SampleRocks
    /\ output_files = {}
    /\ open_figures = 0
    /\ kb_files = KBFiles(minerals, rocks)
    /\ peer_ret = Pending
    /\ arg = [op |-> "init"]
    /\ ret = Pending

\* create_survey(coordinates, formation) on the second manager
PeerCreateSurvey(coordinates, formation) ==
    /\ Len(peer_surveys) < MaxSurveys
    /\ peer_surveys' = Append(peer_surveys, NewSurvey(peer_surveys, coordinates, formation))
    /\ survey_file' = json_dump(peer_surveys')
    /\ peer_ret' = [value |-> NewSurveyId(peer_surveys)]
    /\ UNCHANGED <<surveys, minerals, rocks, output_files, open_figures, kb_files, arg, ret>>

\* SurveyManager.__init__ again for the second manager
PeerRestart ==
    /\ peer_surveys' = _load_surveys(survey_file)
    /\ peer_ret' = Pending
    /\ UNCHANGED <<surveys, survey_file, minerals, rocks, output_files, open_figures,
                   kb_files, arg, ret>>

ConcNext ==
    \/ Restart
    \/ PeerRestart
    \/ \E s \in CommandSurveys : CreateSurvey(s.coordinates, s.formation)
    \/ \E s \in CommandSurveys : PeerCreateSurvey(s.coordinates, s.formation)

ConcSpec == ConcInit /\ [][ConcNext]_vars

Stored == _load_surveys(survey_file)

InStore(survey) == \E k \in 1..Len(Stored) : Stored[k] = survey

\* the last call of each manager was create_survey
BothCreated == arg.op = "create_survey" /\ peer_ret # Pending

\* C15: the file always holds the list of the manager that wrote last, and
\* when both managers have created a survey while holding lists of the same
\* length, both calls returned the same id and the file has a single survey
\* under that id: if the two created surveys differ, one of them is not in
\* the file.
C15_LostUpdate ==
    /\ Stored = surveys \/ Stored = peer_surveys
    /\ BothCreated /\ Len(surveys) = Len(peer_surveys) =>
          /\ ret.value = peer_ret.value
          /\ Len(Stored) = Len(surveys)
          /\ LastOf(surveys) # LastOf(peer_surveys) =>
                ~(InStore(LastOf(surveys)) /\ InStore(LastOf(peer_surveys)))

\* both managers loaded the absent file, the first created survey_001, then
\* the second created survey_001 with other coordinates: the file holds only
\* the second manager's survey
C15_Witness ==
    /\ BothCreated
    /\ ret.value = IdOf(1)
    /\ peer_ret.value = IdOf(1)
    /\ LastOf(surveys) # LastOf(peer_surveys)
    /\ Stored = peer_surveys
    /\ Len(Stored) = 1
    /\ ~InStore(LastOf(surveys))

(***************************************************************************)
(* TypeSpec: add_description and the generate-map command on a store with  *)
(* one survey, for knowledge bases in which Granite and Quartz are each in *)
(* the mineral collection, the rock collection, both or neither.           *)
(***************************************************************************)
TypeStore ==
    << [id           |-> IdOf(1),
        coordinates  |-> <<PointA, PointC>>,
        descriptions |-> <<>>,
        formation    |-> None,
        date         |-> Today] >>

Only(present, record) == IF present THEN <<record>> ELSE <<>>

TypeInit ==
    /\ surveys = TypeStore
    /\ survey_file = json_dump(TypeStore)
    /\ \E gm, qm, gr, qr \in BOOLEAN :
        /\ minerals = Only(gm, [name |-> str_granite, description |-> str_coarse])
                      \o Only(qm, [name |-> str_Quartz, description |-> str_clear])
        /\ rocks = Only(gr, [name |-> str_Granite, type |-> str_rock, description |-> str_coarse])
                   \o Only(qr, [name |-> str_quartz, type |-> str_rock, description |-> str_clear])
    /\ output_files = {}
    /\ open_figures = 0
    /\ kb_files = KBFiles(minerals, rocks)
    /\ peer_surveys = <<>>
    /\ peer_ret = Pending
    /\ arg = [op |-> "init"]
    /\ ret = Pending

TypeNext ==
    \/ \E description \in SampleDescriptions : AddDescription(IdOf(1), description, 0)
    \/ GenerateMap(IdOf(1), "none")

TypeSpec == TypeInit /\ [][TypeNext]_vars

\* add_description has just stored a description with an inferred type
TypedAdd ==
    /\ arg.op = "add_description"
    /\ SurveyIndex(surveys, arg.survey_id) # 0
    /\ infer_type_from_description(arg.description) # None

InBothCollections(name) == NameIn(minerals, name) /\ NameIn(rocks, name)

\* the unit process_survey_data builds from the description just added (the
\* last unit of the survey's mapping data)
UnitOfLastDescription ==
    LastOf(process_survey_data(get_survey_for_mapping(arg.survey_id)).units)

\* C16: for a description whose inferred name is in both the mineral and the
\* rock collection, add_description returns type "mineral" while
\* process_survey_data classifies the unit derived from that description as
\* "rock"; for a name in at most one collection the two agree.
C16_LookupOrderDiffers ==
    TypedAdd =>
        LET name == infer_type_from_description(arg.description)
        IN  /\ UnitOfLastDescription.type = name
            /\ InBothCollections(name) =>
                  /\ ret.value.type = str_mineral
                  /\ UnitOfLastDescription.properties.classification = str_rock
            /\ ~InBothCollections(name) =>
                  ret.value.type = UnitOfLastDescription.properties.classification

\* "a clear quartz crystal" was added with Quartz a mineral and quartz a rock
C16_Witness ==
    /\ TypedAdd
    /\ infer_type_from_description(arg.description) = str_Quartz
    /\ InBothCollections(str_Quartz)
    /\ ret.value.type = str_mineral
    /\ UnitOfLastDescription.properties.classification = str_rock
====
